---- MODULE Spec2Model ----
(***************************************************************************)
(* Proposal lifecycle of the M&A platform backend.                         *)
(*                                                                         *)
(* One proposal document lives in the store (the "proposals" collection).  *)
(* Request handlers are coroutines: each one reads the document, runs its  *)
(* checks on the copy it read, and later issues one update_one.  The       *)
(* handlers are therefore modelled in two steps, the read with its checks  *)
(* and the write, and two handlers may interleave between those steps.     *)
(*                                                                         *)
(* Modelled at the level of the handlers' guards and of the update         *)
(* documents they send to the store.  Timestamps, comments and metadata    *)
(* of a review record are left out; a record is its status_from/status_to  *)
(* pair.  The four mandatory content blocks, which update_proposal treats  *)
(* alike, are carried by teaser_content; full_content is kept apart        *)
(* because the guards read it.  Exceptions and review records are taken    *)
(* as the handlers build them: an exception is its error_code, a record    *)
(* carries the status_from and status_to that _transition_status gives it. *)
(***************************************************************************)
EXTENDS Naturals, Sequences, FiniteSets, TLC

\* ---------------------------------------------------------------- bounds
\* Store writes that one behaviour may apply, with one request at a time.
MaxWrites == 4
\* Store writes that one behaviour may apply, with two requests in flight.
MaxRaceWrites == 3
\* Attachments that one behaviour may add.
MaxFiles == 1

\* ------------------------------------------------------------- constants
Tasks == {"t1", "t2"}

ProposalStatus ==
    {"draft", "under_review", "approved", "rejected", "available", "sent", "archived"}

\* users collection: one seller (the creator), one buyer, an active and a
\* disabled admin; "nobody" is an id that matches no user document.
UserIds == {"seller1", "buyer1", "admin1", "admin2", "nobody"}

UserRole(u) ==
    CASE u = "seller1" -> "seller"
      [] u = "buyer1"  -> "buyer"
      [] u = "admin1"  -> "admin"
      [] u = "admin2"  -> "admin"
      [] OTHER         -> "none"

is_active(u) == u # "admin2"

\* full_content: absent, or present with a detailed_description of
\* 100..199 characters ("d100") or of at least 200 characters ("d200").
FullVals == {"none", "d100", "d200"}
TeaserVals == {"v1", "v2"}

\* Least length of a reject reason.
MinRejectReason == 10

\* Reject reasons by their length as sent and after strip(): one too short
\* as sent, one long enough only with its padding, one just long enough.
ReasonVals ==
    {[len |-> 9, stripped |-> 9],
     [len |-> 12, stripped |-> 9],
     [len |-> 10, stripped |-> 10]}

VARIABLES
    doc,       \* the proposal document in the store
    task,      \* per coroutine: what it is waiting to write
    last,      \* outcome of the handler that returned most recently
    commits,   \* number of update_one calls applied to the document
    store,     \* the proposals the admin's review queue works on
    batch,     \* the batch request in progress, if any
    auth       \* users, refresh tokens issued, blacklist and clock

vars == <<doc, task, last, commits, store, batch, auth>>


\* ------------------------------------------------- models/proposal.py
\* A version that keeps a proposal editable while it is reviewed.
can_edit_until_decided(p) == p.status \in {"draft", "rejected", "under_review"}

can_edit(p) == p.status \in {"draft", "rejected"}

can_submit(p) == p.status = "draft" /\ p.full_content # "none"

can_approve(p) == p.status = "under_review"

\* can_send without regard to the status.
can_send_any(p) == p.status \in ProposalStatus

can_send(p) == p.status \in {"approved", "available"}

\* --------------------------- services/proposal/validation_service.py
\* The table with one entry changed: an archived proposal may be reopened.
valid_transitions_reopening ==
    [s \in ProposalStatus |->
        CASE s = "draft"        -> {"under_review", "archived"}
          [] s = "under_review" -> {"approved", "rejected", "draft"}
          [] s = "approved"     -> {"available", "archived"}
          [] s = "available"    -> {"sent", "archived"}
          [] s = "sent"         -> {"archived"}
          [] s = "rejected"     -> {"draft", "archived"}
          [] s = "archived"     -> {"draft"}]

valid_transitions ==
    [s \in ProposalStatus |->
        CASE s = "draft"        -> {"under_review", "archived"}
          [] s = "under_review" -> {"approved", "rejected", "draft"}
          [] s = "approved"     -> {"available", "archived"}
          [] s = "available"    -> {"sent", "archived"}
          [] s = "sent"         -> {"archived"}
          [] s = "rejected"     -> {"draft", "archived"}
          [] s = "archived"     -> {}]

validate_status_transition(current_status, target_status) ==
    IF target_status \in valid_transitions[current_status]
    THEN "ok"
    ELSE "INVALID_STATUS_TRANSITION"

\* The report is built with ready_for_submission False and returned as
\* built: the required-field list is declared but never evaluated.
check_data_completeness(p) ==
    [overall_score |-> 0, missing_fields |-> {}, ready_for_submission |-> FALSE]

check_admin_permission(u) ==
    IF UserRole(u) # "admin" THEN "ADMIN_PERMISSION_REQUIRED"
    ELSE IF ~is_active(u) THEN "ADMIN_ACCOUNT_DISABLED"
    ELSE "ok"

\* ------------------------------- services/proposal/core_service.py
\* A version that hands the proposal to every caller.
get_proposal_for_edit_for_anyone(p, u) == "ok"

\* The creator, or any user document whose role is admin.
get_proposal_for_edit(p, u) ==
    IF p.creator_id # u /\ UserRole(u) # "admin"
    THEN "PROPOSAL_EDIT_NO_PERMISSION"
    ELSE "ok"

\* ----------------------------------- services/proposal_service.py
\* find_one({_id, creator_id: user, is_active: True}); is_active is cleared
\* by proposal_service.delete_proposal alone.
legacy_get_proposal_for_edit(p, u) == p.creator_id = u /\ p.is_active


\* ---------------------------------------------------- handler checks
\* Each operator runs a handler's checks, in the handler's order, on the
\* copy p of the document that the handler read; the value is "ok" or
\* the error_code of the exception the handler raises.

\* submit_proposal without its completeness gate.
submit_proposal_checks_ungated(p, u) ==
    IF get_proposal_for_edit(p, u) # "ok" THEN get_proposal_for_edit(p, u)
    ELSE IF ~can_submit(p) THEN "PROPOSAL_NOT_SUBMITTABLE"
    ELSE IF validate_status_transition(p.status, "under_review") # "ok"
         THEN "INVALID_STATUS_TRANSITION"
    ELSE "ok"

\* workflow_service.submit_proposal
submit_proposal_checks(p, u) ==
    IF get_proposal_for_edit(p, u) # "ok" THEN get_proposal_for_edit(p, u)
    ELSE IF ~can_submit(p) THEN "PROPOSAL_NOT_SUBMITTABLE"
    ELSE IF validate_status_transition(p.status, "under_review") # "ok"
         THEN "INVALID_STATUS_TRANSITION"
    ELSE IF ~check_data_completeness(p).ready_for_submission
         THEN "PROPOSAL_DATA_INCOMPLETE"
    ELSE "ok"

\* withdraw_proposal without its own status test; the transition table
\* still applies.
withdraw_proposal_checks_table_only(p, u) ==
    IF get_proposal_for_edit(p, u) # "ok" THEN get_proposal_for_edit(p, u)
    ELSE validate_status_transition(p.status, "draft")

\* workflow_service.withdraw_proposal
withdraw_proposal_checks(p, u) ==
    IF get_proposal_for_edit(p, u) # "ok" THEN get_proposal_for_edit(p, u)
    ELSE IF p.status # "under_review" THEN "PROPOSAL_NOT_WITHDRAWABLE"
    ELSE validate_status_transition(p.status, "draft")

\* workflow_service.publish_proposal
publish_proposal_checks(p, u) ==
    IF check_admin_permission(u) # "ok" THEN check_admin_permission(u)
    ELSE IF p.status # "approved" THEN "PROPOSAL_NOT_PUBLISHABLE"
    ELSE validate_status_transition(p.status, "available")

\* archive_proposal with the transition table applied to it.
archive_proposal_checks_validated(p, u) ==
    IF p.creator_id # u /\ check_admin_permission(u) # "ok"
    THEN "PROPOSAL_ARCHIVE_NO_PERMISSION"
    ELSE IF p.status = "archived" THEN "PROPOSAL_ALREADY_ARCHIVED"
    ELSE validate_status_transition(p.status, "archived")

\* workflow_service.archive_proposal: no call of validate_status_transition
archive_proposal_checks(p, u) ==
    IF p.creator_id # u /\ check_admin_permission(u) # "ok"
    THEN "PROPOSAL_ARCHIVE_NO_PERMISSION"
    ELSE IF p.status = "archived" THEN "PROPOSAL_ALREADY_ARCHIVED"
    ELSE "ok"

\* approve_proposal without the test of the status it read.
approve_proposal_checks_any_status(p, u) ==
    IF check_admin_permission(u) # "ok" THEN check_admin_permission(u)
    ELSE "ok"

\* admin_service.approve_proposal
approve_proposal_checks(p, u) ==
    IF check_admin_permission(u) # "ok" THEN check_admin_permission(u)
    ELSE IF p.status # "under_review" THEN "PROPOSAL_NOT_REVIEWABLE"
    ELSE validate_status_transition(p.status, "approved")

\* reject_proposal without the test of the reason.
reject_proposal_checks_any_reason(p, u, reason) ==
    IF check_admin_permission(u) # "ok" THEN check_admin_permission(u)
    ELSE IF p.status # "under_review" THEN "PROPOSAL_NOT_REVIEWABLE"
    ELSE validate_status_transition(p.status, "rejected")

\* admin_service.reject_proposal; the reason is measured after strip()
reject_proposal_checks(p, u, reason) ==
    IF check_admin_permission(u) # "ok" THEN check_admin_permission(u)
    ELSE IF p.status # "under_review" THEN "PROPOSAL_NOT_REVIEWABLE"
    ELSE IF reason.stripped < MinRejectReason THEN "REJECT_REASON_TOO_SHORT"
    ELSE validate_status_transition(p.status, "rejected")

\* core_service.update_proposal, add_proposal_file, remove_proposal_file
update_proposal_checks(p, u) ==
    IF get_proposal_for_edit(p, u) # "ok" THEN get_proposal_for_edit(p, u)
    ELSE IF ~can_edit(p) THEN "PROPOSAL_NOT_EDITABLE"
    ELSE "ok"

\* core_service.delete_proposal
delete_proposal_checks(p, u) ==
    IF get_proposal_for_edit(p, u) # "ok" THEN get_proposal_for_edit(p, u)
    ELSE IF p.status \notin {"draft", "rejected"} THEN "PROPOSAL_NOT_DELETABLE"
    ELSE "ok"

\* proposal_service.send_proposal_to_buyer
send_proposal_to_buyer_checks(p, buyer_id, sender_id) ==
    IF ~can_send(p) THEN "PROPOSAL_NOT_SENDABLE"
    ELSE IF UserRole(buyer_id) # "buyer" THEN "BUYER_NOT_FOUND"
    ELSE IF p.creator_id # sender_id /\ UserRole(sender_id) # "admin"
         THEN "INSUFFICIENT_PERMISSION"
    ELSE "ok"

\* proposal_service.submit_proposal
legacy_submit_proposal_checks(p, u) ==
    IF ~legacy_get_proposal_for_edit(p, u) THEN "PROPOSAL_NOT_FOUND"
    ELSE IF ~can_submit(p) THEN "PROPOSAL_NOT_SUBMITTABLE"
    ELSE "ok"

\* ------------------------------------------------------------- state
Idle ==
    [pc |-> "idle", op |-> "-", caller |-> "-",
     status_from |-> "-", status_to |-> "-",
     teaser |-> "none", full |-> "none", file |-> 0,
     auto_publish |-> FALSE, stale |-> FALSE]

\* A coroutine that serves no request in this run.
Off == [Idle EXCEPT !.pc = "off"]

\* A handler that passed its checks and is suspended before its update_one.
Waiting(op, u, p) ==
    [Idle EXCEPT !.pc = "write", !.op = op, !.caller = u,
                 !.status_from = p.status]

\* What a handler hands back to its caller: True ("ok"), or the error_code
\* of the exception it raised; items are the proposals a search returns.
Response(op, u, r) ==
    [op |-> op, caller |-> u, result |-> r, current |-> "-", target |-> "-",
     items |-> {}]

\* Writes that the suspended handlers are still going to issue.
Need(t) ==
    IF task[t].pc \in {"idle", "off"} THEN 0
    ELSE IF task[t].pc = "write" /\ task[t].auto_publish
            /\ task[t].status_to = "approved" THEN 2
    ELSE 1

RECURSIVE Reserved(_)
Reserved(S) ==
    IF S = {} THEN 0
    ELSE LET t == CHOOSE x \in S : TRUE IN Need(t) + Reserved(S \ {t})

\* Writes applied, plus those the suspended handlers are going to issue.
Outstanding == commits + Reserved(Tasks)

Budget(n) ==
    Outstanding + n <= IF task["t2"] = Off THEN MaxWrites ELSE MaxRaceWrites

\* The proposals of the review queue: two drafts of the seller's, with
\* full content, created one after the other.  entered_at is the time of
\* the write that made the proposal under_review (0: never).
StoreIds == {"pa", "pb"}

Drafts ==
    [id \in StoreIds |->
        [creator_id |-> "seller1", status |-> "draft", is_active |-> TRUE,
         full_content |-> "d100", review_records |-> <<>>,
         created_at |-> IF id = "pa" THEN 1 ELSE 2, entered_at |-> 0]]

NoBatch ==
    [pc |-> "idle", op |-> "-", caller |-> "-",
     reason |-> [len |-> 0, stripped |-> 0],
     proposal_ids |-> <<>>, ids |-> <<>>,
     successful |-> <<>>, failed |-> <<>>]

\* core_service.create_proposal: a draft, version 1, no review records,
\* counters at 0, full_content optional.
NewProposals(creators) ==
    {[creator_id |-> c, status |-> "draft", version |-> 1,
      is_active |-> TRUE, teaser_content |-> "v1",
      full_content |-> f, attached_files |-> {},
      review_records |-> <<>>, sent_count |-> 0, view_count |-> 0] :
         c \in creators, f \in FullVals}

\* ------------------------------------------------- auth_service.py
\* Addresses of the users: one registered from the start, one not.
Emails == {"seller@example.com", "buyer@example.com"}

Passwords == {"pw1", "pw2"}

\* Ids the store gives to the users it inserts, in this order.
UserDocIds == <<"u1", "u2", "u3">>

\* Lifetime of a refresh token in days; the clock is read in days.
refresh_token_expire_days == 7

MaxTicks == 2

MaxTokens == 2

\* No create_user under way in this coroutine.
NoPending == [email |-> "-", password |-> "-"]

\* One active user; no token issued, none blacklisted.
Started ==
    [users |-> {[id |-> "u1", email |-> "seller@example.com",
                 password |-> "pw1", is_active |-> TRUE]},
     issued |-> {},
     blacklist |-> {},
     now |-> 0,
     pending |-> [t \in Tasks |-> NoPending]]

StartingFrom(workers, proposals) ==
    /\ doc \in proposals
    /\ task = [t \in Tasks |-> IF t \in workers THEN Idle ELSE Off]
    /\ last = Response("create_proposal", doc.creator_id, "ok")
    /\ commits = 0
    /\ store = Drafts
    /\ batch = NoBatch
    /\ auth = Started

CreatedAs(workers, creators) == StartingFrom(workers, NewProposals(creators))

\* The proposal of a seller.
Created(workers) == CreatedAs(workers, {"seller1"})

\* One coroutine serves the requests.
Init == Created({"t1"})

\* Users check_creator_permission lets create a proposal: an active
\* seller or admin.
Creators == {u \in UserIds : UserRole(u) \in {"seller", "admin"} /\ is_active(u)}

\* One coroutine, the proposal of a seller or of an admin.
InitView == CreatedAs({"t1"}, Creators)

\* Two coroutines serve requests.
InitRace == Created(Tasks)

\* The read half of a handler: r is the outcome of its checks on the
\* document as it is now.  A failed check raises at once; otherwise the
\* handler goes on to its update_one, which is a later step.
Read(t, op, u, r, w, n) ==
    /\ task[t].pc = "idle"
    /\ IF r = "ok"
       THEN /\ Budget(n)
            /\ task' = [task EXCEPT ![t] = w]
            /\ UNCHANGED last
       ELSE /\ last' = Response(op, u, r)
            /\ UNCHANGED task
    /\ UNCHANGED <<doc, commits, store, batch, auth>>

\* The write half: update_one carries no condition on status or version,
\* so it applies to whatever the document is by now.  Every other handler
\* that has read the document is from here on holding a stale copy.
Write(t, d, next) ==
    /\ doc' = d
    /\ commits' = commits + 1
    /\ UNCHANGED <<store, batch, auth>>
    /\ task' = [s \in Tasks |->
                  IF s = t THEN next
                  ELSE IF task[s].pc \in {"idle", "off"} THEN task[s]
                  ELSE [task[s] EXCEPT !.stale = TRUE]]


\* ------------------------------------------------- update documents
\* workflow_service._transition_status:
\*   {$set: {status: to_status}, $push: {review_records: record}}
\* version is not part of the update.  created_at is datetime.utcnow(): the
\* clock has moved on since the latest record of the document was made.
utcnow(p) ==
    IF p.review_records = <<>> THEN 1
    ELSE p.review_records[Len(p.review_records)].created_at + 1

\* An update that sets the status and pushes no record.
transition_update_status_only(p, from_status, to_status) ==
    [p EXCEPT !.status = to_status]

transition_update(p, from_status, to_status) ==
    [p EXCEPT !.status = to_status,
              !.review_records =
                  Append(@, [status_from |-> from_status, status_to |-> to_status,
                             created_at |-> utcnow(p)])]

\* An update that writes every block of the request, absent ones included.
update_dict_overwriting(p, teaser, full) ==
    [p EXCEPT !.teaser_content = IF teaser # "none" THEN teaser ELSE @,
              !.full_content = full]

\* core_service.update_proposal: {$set: update_dict}; a block enters
\* update_dict only when the request carries it.
update_dict(p, teaser, full) ==
    [p EXCEPT !.teaser_content = IF teaser # "none" THEN teaser ELSE @,
              !.full_content = IF full # "none" THEN full ELSE @]

\* core_service.delete_proposal: {$set: {status: archived, deleted_at}}
delete_update(p) == [p EXCEPT !.status = "archived"]

\* proposal_service.send_proposal_to_buyer:
\*   {$inc: {sent_count: 1}, $set: {status: sent}}
send_update(p) == [p EXCEPT !.status = "sent", !.sent_count = @ + 1]

\* proposal_service.submit_proposal:
\*   {$set: {full_content, status: under_review, submitted_at}}
legacy_submit_update(p, full) ==
    [p EXCEPT !.status = "under_review", !.full_content = full]

\* ------------------------------------------------ workflow_service.py
TransitionOps ==
    {"submit_proposal", "withdraw_proposal", "publish_proposal",
     "archive_proposal", "approve_proposal", "reject_proposal"}

submit_proposal(t, u) ==
    Read(t, "submit_proposal", u, submit_proposal_checks(doc, u),
         [Waiting("submit_proposal", u, doc) EXCEPT !.status_to = "under_review"], 1)

withdraw_proposal(t, u) ==
    Read(t, "withdraw_proposal", u, withdraw_proposal_checks(doc, u),
         [Waiting("withdraw_proposal", u, doc) EXCEPT !.status_to = "draft"], 1)

publish_proposal(t, u) ==
    Read(t, "publish_proposal", u, publish_proposal_checks(doc, u),
         [Waiting("publish_proposal", u, doc) EXCEPT !.status_to = "available"], 1)

archive_proposal(t, u) ==
    Read(t, "archive_proposal", u, archive_proposal_checks(doc, u),
         [Waiting("archive_proposal", u, doc) EXCEPT !.status_to = "archived"], 1)

\* The update_one of _transition_status.  modified_count is positive
\* because updated_at and review_records change, so the handler returns
\* True; approve_proposal with auto_publish goes on to publish_proposal.
\* What the handler answers once _transition_status has returned True and
\* its notification hook (_notify_admin_new_submission,
\* _notify_creator_approved, ...) has returned or raised.  The hook is
\* awaited inside the handler's try: what it raises leaves through the
\* except clause as the handler's own error.  withdraw and archive call no
\* hook; of an approve that published, publish's hook comes first.
after_notify(op, status_to, hook) ==
    IF hook = "ok" \/ op \in {"withdraw_proposal", "archive_proposal"} THEN "ok"
    ELSE CASE op = "submit_proposal"  -> "PROPOSAL_SUBMIT_ERROR"
           [] op = "publish_proposal" -> "PROPOSAL_PUBLISH_ERROR"
           [] op = "reject_proposal"  -> "PROPOSAL_REJECT_ERROR"
           [] op = "approve_proposal" ->
                  IF status_to = "available" THEN "PROPOSAL_PUBLISH_ERROR"
                  ELSE "PROPOSAL_APPROVE_ERROR"

\* _transition_status and the rest of the handler that called it.
transition_status_then(t, hook) ==
    /\ task[t].pc = "write"
    /\ task[t].op \in TransitionOps
    /\ LET chain == /\ task[t].op = "approve_proposal"
                    /\ task[t].status_to = "approved"
                    /\ task[t].auto_publish
       IN /\ Write(t, transition_update(doc, task[t].status_from, task[t].status_to),
                   IF chain
                   THEN [task[t] EXCEPT !.pc = "auto_publish", !.stale = FALSE]
                   ELSE Idle)
          /\ last' = IF chain THEN last
                     ELSE Response(task[t].op, task[t].caller,
                                   after_notify(task[t].op, task[t].status_to, hook))

\* The hooks as they stand print a line and return.
transition_status(t) == transition_status_then(t, "ok")

\* can_transition_to: read-only; the permissions it computes do not enter
\* the verdict, only validate_status_transition does.
can_transition_to(t, u, target_status) ==
    /\ task[t].pc = "idle"
    /\ last' = [op |-> "can_transition_to", caller |-> u,
                result |-> IF validate_status_transition(doc.status, target_status) = "ok"
                           THEN "can_transition"
                           ELSE "INVALID_STATUS_TRANSITION",
                current |-> doc.status, target |-> target_status,
                items |-> {}]
    /\ UNCHANGED <<doc, task, commits, store, batch, auth>>

\* --------------------------------------------------- admin_service.py
approve_proposal(t, u, auto_publish) ==
    Read(t, "approve_proposal", u, approve_proposal_checks(doc, u),
         [Waiting("approve_proposal", u, doc) EXCEPT
             !.status_to = "approved", !.auto_publish = auto_publish],
         IF auto_publish THEN 2 ELSE 1)

\* approve_proposal's call of workflow.publish_proposal after its own write:
\* publish reads the document again; an exception it raises leaves
\* approve_proposal through the except clause.
approve_proposal_auto_publish(t) ==
    /\ task[t].pc = "auto_publish"
    /\ LET r == publish_proposal_checks(doc, task[t].caller) IN
         IF r = "ok"
         THEN /\ task' = [task EXCEPT ![t] =
                            [@ EXCEPT !.pc = "write", !.status_from = doc.status,
                                      !.status_to = "available", !.stale = FALSE]]
              /\ UNCHANGED last
         ELSE /\ task' = [task EXCEPT ![t] = Idle]
              /\ last' = Response("approve_proposal", task[t].caller, r)
    /\ UNCHANGED <<doc, commits, store, batch, auth>>

reject_proposal(t, u, reason) ==
    Read(t, "reject_proposal", u, reject_proposal_checks(doc, u, reason),
         [Waiting("reject_proposal", u, doc) EXCEPT !.status_to = "rejected"], 1)


\* ---------------------------------------------------- core_service.py
\* ProposalUpdate refuses a request that carries no block at all.
update_proposal(t, u, teaser, full) ==
    /\ teaser # "none" \/ full # "none"
    /\ Read(t, "update_proposal", u, update_proposal_checks(doc, u),
            [Waiting("update_proposal", u, doc) EXCEPT !.teaser = teaser, !.full = full], 1)

update_proposal_write(t) ==
    /\ task[t].pc = "write"
    /\ task[t].op = "update_proposal"
    /\ Write(t, update_dict(doc, task[t].teaser, task[t].full), Idle)
    /\ last' = Response("update_proposal", task[t].caller, "ok")

delete_proposal(t, u) ==
    Read(t, "delete_proposal", u, delete_proposal_checks(doc, u),
         [Waiting("delete_proposal", u, doc) EXCEPT !.status_to = "archived"], 1)

delete_proposal_write(t) ==
    /\ task[t].pc = "write"
    /\ task[t].op = "delete_proposal"
    /\ Write(t, delete_update(doc), Idle)
    /\ last' = Response("delete_proposal", task[t].caller, "ok")

\* file_id is a fresh ObjectId(), made before the update is sent.
FreshFiles ==
    (1..MaxFiles) \ (doc.attached_files \cup {task[s].file : s \in Tasks})

add_proposal_file(t, u) ==
    \E f \in 1..MaxFiles :
        /\ update_proposal_checks(doc, u) = "ok" => f \in FreshFiles
        /\ Read(t, "add_proposal_file", u, update_proposal_checks(doc, u),
                [Waiting("add_proposal_file", u, doc) EXCEPT !.file = f], 1)

\* {$push: {attached_files: file_record}, $set: {updated_at}}
add_proposal_file_write(t) ==
    /\ task[t].pc = "write"
    /\ task[t].op = "add_proposal_file"
    /\ Write(t, [doc EXCEPT !.attached_files = @ \cup {task[t].file}], Idle)
    /\ last' = Response("add_proposal_file", task[t].caller, "ok")

remove_proposal_file(t, u, file_id) ==
    Read(t, "remove_proposal_file", u, update_proposal_checks(doc, u),
         [Waiting("remove_proposal_file", u, doc) EXCEPT !.file = file_id], 1)

\* {$pull: {attached_files: {file_id}}, $set: {updated_at}}
remove_proposal_file_write(t) ==
    /\ task[t].pc = "write"
    /\ task[t].op = "remove_proposal_file"
    /\ Write(t, [doc EXCEPT !.attached_files = @ \ {task[t].file}], Idle)
    /\ last' = Response("remove_proposal_file", task[t].caller, "ok")

\* ------------------------------------------------ proposal_service.py
legacy_submit_proposal(t, u, full) ==
    Read(t, "legacy_submit_proposal", u, legacy_submit_proposal_checks(doc, u),
         [Waiting("legacy_submit_proposal", u, doc) EXCEPT
             !.status_to = "under_review", !.full = full], 1)

legacy_submit_proposal_write(t) ==
    /\ task[t].pc = "write"
    /\ task[t].op = "legacy_submit_proposal"
    /\ Write(t, legacy_submit_update(doc, task[t].full), Idle)
    /\ last' = Response("legacy_submit_proposal", task[t].caller, "ok")

send_proposal_to_buyer(t, buyer_id, sender_id) ==
    Read(t, "send_proposal_to_buyer", sender_id,
         send_proposal_to_buyer_checks(doc, buyer_id, sender_id),
         [Waiting("send_proposal_to_buyer", sender_id, doc) EXCEPT !.status_to = "sent"], 1)

\* returns True whatever update_one reports
send_proposal_to_buyer_write(t) ==
    /\ task[t].pc = "write"
    /\ task[t].op = "send_proposal_to_buyer"
    /\ Write(t, send_update(doc), Idle)
    /\ last' = Response("send_proposal_to_buyer", task[t].caller, "ok")

\* ------------------------------------------------- search_service.py
\* user_id of a request without a logged-in user (None).
NoUser == "anonymous"

\* A find() filter: field names mapped to the values they admit.  Merging
\* two filters ({**a, **b}, dict.update) lets the later one win on a key.
EmptyQuery == [k \in {} |-> {}]

Merged(a, b) == b @@ a

\* The proposal's value under a field name of a filter; create_proposal
\* stored the industry, which no later operation of the model changes.
\* Revenue and year of establishment of the stored proposal, as in the
\* example of ProposalCreate.
Revenue == 50000000

EstablishedYear == 2018

FieldOf(p, k) ==
    CASE k = "status"                        -> p.status
      [] k = "company_info.industry"         -> "technology"
      [] k = "financial_info.revenue"        -> Revenue
      [] k = "company_info.established_year" -> EstablishedYear
      [] OTHER                               -> "-"

Matches(p, query) == \A k \in DOMAIN query : FieldOf(p, k) \in query[k]

\* An optional bound is the empty set (None) or the set of its one value.
NoRange == [min |-> {}, max |-> {}]

RevenueRanges ==
    {NoRange,
     [min |-> {10000000}, max |-> {100000000}],
     [min |-> {100000000}, max |-> {10000000}]}

YearRanges ==
    {NoRange,
     [min |-> {2000}, max |-> {2020}],
     [min |-> {2020}, max |-> {2000}]}

\* {"$gte": min, "$lte": max}, each bound only if given, as the set of
\* the stored values it admits.
Within(range, values) ==
    {v \in values : /\ \A a \in range.min : v >= a
                    /\ \A b \in range.max : v <= b}

\* Search requests: an industry filter (empty: none), the status list of
\* ProposalSearchParams (empty: none), the page asked for, and the ranges
\* of revenue and of year of establishment.
SearchParams ==
    [industries : {{}, {"technology"}, {"retail"}},
     status : {{}, {"draft", "under_review"}},
     page : 1..2,
     revenue : {NoRange}, established_year : {NoRange}]
    \cup
    [industries : {{}}, status : {{}}, page : {1},
     revenue : RevenueRanges, established_year : YearRanges]

\* The validators of ProposalSearchParams that bear on these fields:
\* validate_revenue_range.  No validator compares the years.
validate_search_params(search_params) ==
    IF \E a \in search_params.revenue.min, b \in search_params.revenue.max : b < a
    THEN "VALIDATION_ERROR"
    ELSE "ok"

build_base_query(user_id) ==
    "status" :> (IF user_id # NoUser THEN {"available", "sent"} ELSE {"available"})

\* search_params.status is not among the fields it reads
build_filter_query(search_params) ==
    (IF search_params.industries # {}
     THEN "company_info.industry" :> search_params.industries
     ELSE EmptyQuery)
    @@ (IF search_params.revenue # NoRange
        THEN "financial_info.revenue" :> Within(search_params.revenue, {Revenue})
        ELSE EmptyQuery)
    @@ (IF search_params.established_year # NoRange
        THEN "company_info.established_year" :>
                 Within(search_params.established_year, {EstablishedYear})
        ELSE EmptyQuery)

\* The labels stand for the four range texts of the source.
get_revenue_range(revenue) ==
    IF revenue < 1000000 THEN "under_1m"
    ELSE IF revenue < 10000000 THEN "1m_to_10m"
    ELSE IF revenue < 100000000 THEN "10m_to_100m"
    ELSE "over_100m"

\* A rendering that copies the stored full content into the result, as
\* get_full_info does.
format_proposal_with_full_info(p, user_id) ==
    [status |-> p.status,
     teaser_content |-> p.teaser_content,
     revenue_range |-> "absent",
     revenue |-> "absent",
     full_content |-> p.full_content]

\* _format_proposal_for_search: the keys of the result and what they hold;
\* a key the result does not have is "absent".
format_proposal_for_search(p, user_id) ==
    [status |-> p.status,
     teaser_content |-> p.teaser_content,
     revenue_range |-> IF user_id # NoUser THEN get_revenue_range(Revenue)
                       ELSE "absent",
     revenue |-> "absent",
     full_content |-> "absent"]

\* A Proposal object handed back as it was read from the store.
from_dict(p) ==
    [status |-> p.status,
     teaser_content |-> p.teaser_content,
     revenue_range |-> "absent",
     revenue |-> Revenue,
     full_content |-> p.full_content]

\* With one proposal in the store the first page holds it, if it matches,
\* and every later page is empty.
Found(query, page) == IF Matches(doc, query) /\ page = 1 THEN {doc} ELSE {}

Returns(t, op, user_id, items) ==
    /\ task[t].pc = "idle"
    /\ last' = [Response(op, user_id, "ok") EXCEPT !.items = items]
    /\ UNCHANGED <<doc, task, commits, store, batch, auth>>

\* The request is validated when ProposalSearchParams is built, before the
\* service is called.
search_proposals(t, user_id, search_params) ==
    LET final_query == Merged(build_base_query(user_id),
                              build_filter_query(search_params))
    IN IF validate_search_params(search_params) # "ok"
       THEN /\ task[t].pc = "idle"
            /\ last' = Response("search_proposals", user_id,
                                validate_search_params(search_params))
            /\ UNCHANGED <<doc, task, commits, store, batch, auth>>
       ELSE Returns(t, "search_proposals", user_id,
                    {format_proposal_for_search(p, user_id) :
                        p \in Found(final_query, search_params.page)})

\* The status filter does not depend on user_id; keywords either match the
\* text index of the proposal or do not.
full_text_search(t, user_id, keywords_match) ==
    LET text_query == "status" :> {"available", "sent"}
    IN Returns(t, "full_text_search", user_id,
               {format_proposal_for_search(p, user_id) :
                   p \in IF keywords_match THEN Found(text_query, 1) ELSE {}})

\* AdditionalFilters: None, or a dict the caller passes.
AdditionalFilters ==
    {EmptyQuery, "status" :> {"draft", "under_review"}}

\* filter_by_industry takes no user_id: the caller, logged in or not, is
\* only recorded with the response.
filter_by_industry(t, user_id, industries, additional_filters) ==
    LET query == Merged(("company_info.industry" :> industries)
                            @@ ("status" :> {"available", "sent"}),
                        additional_filters)
    IN Returns(t, "filter_by_industry", user_id,
               {from_dict(p) : p \in Found(query, 1)})

\* ------------------------------------------- api/v1/proposals/core.py
\* Ids a caller may ask for: the stored proposal's, and one of no proposal.
ProposalIds == {"p1", "p404"}

\* find_one({"_id": proposal_id}): the proposal, whoever asks and whatever
\* its status, or None.
get_proposal_by_id(proposal_id) == IF proposal_id = "p1" THEN {doc} ELSE {}

\* The endpoint names a status PUBLISHED, which ProposalStatus does not
\* have; it is read as the published status, available.
PUBLISHED == "available"

\* response_data of GET /{proposal_id}
response_data(p, user_id) ==
    LET is_creator == user_id # NoUser /\ p.creator_id = user_id
        is_admin   == UserRole(user_id) = "admin"
    IN [status |-> p.status,
        teaser_content |-> IF p.status \in {PUBLISHED, "sent"}
                           THEN p.teaser_content ELSE "absent",
        revenue_range |-> "absent",
        revenue |-> IF is_creator \/ is_admin THEN Revenue ELSE "absent",
        full_content |-> IF (is_creator \/ is_admin) /\ p.full_content # "none"
                         THEN p.full_content ELSE "absent"]

\* The 404 raised for None is caught by the handler's own except clause
\* and leaves as a 500.  increment_view stays at its default, False.
get_proposal(t, user_id, proposal_id) ==
    LET proposal == get_proposal_by_id(proposal_id)
    IN /\ task[t].pc = "idle"
       /\ last' = IF proposal = {}
                  THEN Response("get_proposal", user_id, "HTTP_500")
                  ELSE [Response("get_proposal", user_id, "ok")
                           EXCEPT !.items = {response_data(p, user_id) :
                                                p \in proposal}]
       /\ UNCHANGED <<doc, task, commits, store, batch, auth>>

\* --------------------------- workflow_service.get_workflow_history
RECURSIVE sort_created_at_ascending(_)
RECURSIVE sort_created_at_reverse(_)

\* history.sort(key=lambda x: x["created_at"], reverse=True), without the
\* reverse.
sort_created_at_ascending(history) ==
    IF history = <<>> THEN <<>>
    ELSE LET n == Len(history)
             sorted == sort_created_at_ascending(SubSeq(history, 1, n - 1))
             k == Cardinality({i \in DOMAIN sorted :
                                  sorted[i].created_at <= history[n].created_at})
         IN SubSeq(sorted, 1, k) \o <<history[n]>>
                \o SubSeq(sorted, k + 1, Len(sorted))

\* history.sort(key=lambda x: x["created_at"], reverse=True): the sort is
\* stable, so records of one created_at stay in the order of the list.
sort_created_at_reverse(history) ==
    IF history = <<>> THEN <<>>
    ELSE LET n == Len(history)
             sorted == sort_created_at_reverse(SubSeq(history, 1, n - 1))
             k == Cardinality({i \in DOMAIN sorted :
                                  sorted[i].created_at >= history[n].created_at})
         IN SubSeq(sorted, 1, k) \o <<history[n]>>
                \o SubSeq(sorted, k + 1, Len(sorted))

\* No proposal: [].  Otherwise one entry per review record, sorted.
get_workflow_history(t, user_id, proposal_id) ==
    LET history == IF get_proposal_by_id(proposal_id) = {} THEN <<>>
                   ELSE sort_created_at_reverse(doc.review_records)
    IN /\ task[t].pc = "idle"
       /\ last' = [Response("get_workflow_history", user_id, "ok")
                      EXCEPT !.target = proposal_id,
                             !.items = {[history |-> history]}]
       /\ UNCHANGED <<doc, task, commits, store, batch, auth>>

\* ------------------------------ validation_service.check_view_permission
NoPermission ==
    [can_view_teaser |-> FALSE, can_view_full |-> FALSE,
     can_edit |-> FALSE, can_delete |-> FALSE]

\* Ids the users collection has a document for.
KnownUsers == {"seller1", "buyer1", "admin1", "admin2"}

\* An NDA check that finds a grant for every logged-in user.
has_nda_access_granted(p, user_id) == user_id \in KnownUsers

\* TODO in the source: always False
has_nda_access(p, user_id) == FALSE

\* A version whose delete permission is the creator's alone.
check_view_permission_creator_deletes(p, user_id) ==
    IF user_id \notin KnownUsers THEN NoPermission
    ELSE LET is_creator == p.creator_id = user_id
             is_admin == UserRole(user_id) = "admin"
         IN [can_view_teaser |-> \/ p.status \in {"available", "sent"}
                                 \/ is_creator
                                 \/ is_admin,
             can_view_full |-> is_creator \/ is_admin,
             can_edit |-> (is_creator /\ can_edit(p)) \/ is_admin,
             can_delete |-> is_creator /\ p.status \in {"draft", "rejected"}]

check_view_permission(p, user_id) ==
    IF user_id \notin KnownUsers THEN NoPermission
    ELSE LET is_creator == p.creator_id = user_id
             is_admin == UserRole(user_id) = "admin"
         IN [can_view_teaser |-> \/ p.status \in {"available", "sent"}
                                 \/ is_creator
                                 \/ is_admin,
             can_view_full |-> \/ is_creator
                               \/ is_admin
                               \/ has_nda_access(p, user_id),
             can_edit |-> (is_creator /\ can_edit(p)) \/ is_admin,
             can_delete |-> \/ is_creator /\ p.status \in {"draft", "rejected"}
                            \/ is_admin]

\* A request that asks for the caller's permissions on the proposal.
view_permission(t, user_id) ==
    Returns(t, "check_view_permission", user_id,
            {check_view_permission(doc, user_id)})

\* ------------------------------------- admin_service.py, batch requests
\* Longest list of ids in a batch request.
MaxBatch == 2

\* Ids a batch may name: the stored proposals' and one of no proposal.
BatchIds == StoreIds \cup {"p404"}

BatchRequests == UNION {[1..n -> BatchIds] : n \in 1..MaxBatch}

\* Time of the next write to the store.
Now ==
    LET times == {store[id].created_at : id \in StoreIds}
                     \cup {store[id].entered_at : id \in StoreIds}
    IN 1 + CHOOSE n \in times : \A m \in times : m <= n

\* Users sending the requests of the review queue.
QueueUsers == {"seller1", "admin1"}

\* proposal_service.submit_proposal on a proposal of the store.  No other
\* request writes a draft, so its read and its write are taken together.
queue_submit(id, u) ==
    LET r == legacy_submit_proposal_checks(store[id], u)
    IN /\ store' = IF r = "ok"
                   THEN [store EXCEPT ![id] =
                           [legacy_submit_update(@, @.full_content)
                               EXCEPT !.entered_at = Now]]
                   ELSE store
       /\ last' = Response("legacy_submit_proposal", u, r)
       /\ UNCHANGED <<doc, task, commits, batch, auth>>

\* A loop that gives up the remaining ids once one has failed.
review_checks_until_failure(op, id, u, reason) ==
    IF batch.failed # <<>> THEN "BATCH_ABORTED"
    ELSE IF check_admin_permission(u) # "ok" THEN check_admin_permission(u)
    ELSE IF id \notin StoreIds THEN "PROPOSAL_NOT_FOUND"
    ELSE IF op = "batch_approve" THEN approve_proposal_checks(store[id], u)
    ELSE reject_proposal_checks(store[id], u, reason)

\* What one call of approve_proposal or reject_proposal answers for an id.
review_checks(op, id, u, reason) ==
    IF check_admin_permission(u) # "ok" THEN check_admin_permission(u)
    ELSE IF id \notin StoreIds THEN "PROPOSAL_NOT_FOUND"
    ELSE IF op = "batch_approve" THEN approve_proposal_checks(store[id], u)
    ELSE reject_proposal_checks(store[id], u, reason)

\* batch_approve up to its loop: any exception leaves as BATCH_APPROVE_ERROR
batch_approve(u, proposal_ids) ==
    /\ batch.pc = "idle"
    /\ IF check_admin_permission(u) # "ok"
       THEN /\ last' = Response("batch_approve", u, "BATCH_APPROVE_ERROR")
            /\ UNCHANGED batch
       ELSE /\ batch' = [NoBatch EXCEPT !.pc = "loop", !.op = "batch_approve",
                                        !.caller = u,
                                        !.proposal_ids = proposal_ids,
                                        !.ids = proposal_ids]
            /\ UNCHANGED last
    /\ UNCHANGED <<doc, task, commits, store, auth>>

\* batch_reject without its own test of the reason.
batch_reject_checks_per_item(u, reason) == check_admin_permission(u)

\* batch_reject before its loop; the ValidationException it raises for the
\* reason leaves, like every exception, as BATCH_REJECT_ERROR.
batch_reject_checks(u, reason) ==
    IF check_admin_permission(u) # "ok" THEN check_admin_permission(u)
    ELSE IF reason.stripped < MinRejectReason THEN "BATCH_REJECT_REASON_TOO_SHORT"
    ELSE "ok"

batch_reject(u, proposal_ids, reason) ==
    /\ batch.pc = "idle"
    /\ IF batch_reject_checks(u, reason) # "ok"
       THEN /\ last' = Response("batch_reject", u, "BATCH_REJECT_ERROR")
            /\ UNCHANGED batch
       ELSE /\ batch' = [NoBatch EXCEPT !.pc = "loop", !.op = "batch_reject",
                                        !.caller = u, !.reason = reason,
                                        !.proposal_ids = proposal_ids,
                                        !.ids = proposal_ids]
            /\ UNCHANGED last
    /\ UNCHANGED <<doc, task, commits, store, auth>>

\* One turn of the loop: the call for the next id, whose exception, if any,
\* is caught and recorded.
batch_item ==
    /\ batch.pc = "loop"
    /\ batch.ids # <<>>
    /\ LET id == Head(batch.ids)
           to_status == IF batch.op = "batch_approve" THEN "approved"
                        ELSE "rejected"
           r == review_checks(batch.op, id, batch.caller, batch.reason)
       IN /\ store' = IF r = "ok"
                      THEN [store EXCEPT ![id] =
                              transition_update(@, @.status, to_status)]
                      ELSE store
          /\ batch' = [batch EXCEPT
                          !.ids = Tail(@),
                          !.successful = IF r = "ok" THEN Append(@, id) ELSE @,
                          !.failed = IF r = "ok" THEN @ ELSE Append(@, id)]
    /\ UNCHANGED <<doc, task, last, commits, auth>>

\* return results
batch_return ==
    /\ batch.pc = "loop"
    /\ batch.ids = <<>>
    /\ last' = [Response(batch.op, batch.caller, "ok") EXCEPT
                   !.items = {[total |-> Len(batch.proposal_ids),
                               proposal_ids |-> batch.proposal_ids,
                               successful |-> batch.successful,
                               failed |-> batch.failed]}]
    /\ batch' = NoBatch
    /\ UNCHANGED <<doc, task, commits, store, auth>>

\* ----------------------------- admin_service.get_pending_reviews
\* find(query).sort("created_at", 1): the matching ids, earliest
\* created first.
SortedByCreatedAt(ids) ==
    CHOOSE seq \in [1..Cardinality(ids) -> ids] :
        /\ \A i, j \in DOMAIN seq : i # j => seq[i] # seq[j]
        /\ \A i, j \in DOMAIN seq :
               i < j => store[seq[i]].created_at <= store[seq[j]].created_at

\* .skip(offset).limit(page_size)
SkipLimit(seq, offset, limit) ==
    [i \in 1..(IF Len(seq) - offset < limit
               THEN (IF Len(seq) > offset THEN Len(seq) - offset ELSE 0)
               ELSE limit) |-> seq[offset + i]]

get_pending_reviews(u, page, page_size) ==
    LET pending == {id \in StoreIds : store[id].status = "under_review"}
        offset == (page - 1) * page_size
    IN /\ last' = [Response("get_pending_reviews", u, "ok") EXCEPT
                      !.items = {[proposals |->
                                      SkipLimit(SortedByCreatedAt(pending),
                                                offset, page_size),
                                  current_page |-> page,
                                  page_size |-> page_size,
                                  total_count |-> Cardinality(pending)]}]
       /\ UNCHANGED <<doc, task, commits, store, batch, auth>>

\* ------------------------------------ core_service.py, view counter
\* get_proposal_by_id(proposal_id, user_id, increment_view=True): after
\* find_one, a logged-in caller who is not the creator goes on to
\* increment_view_count; for anyone else the call returns here.
view_proposal(t, user_id) ==
    /\ task[t].pc = "idle"
    /\ IF user_id # NoUser /\ doc.creator_id # user_id
       THEN /\ Budget(1)
            /\ task' = [task EXCEPT ![t] =
                          [Waiting("get_proposal_by_id", user_id, doc)
                              EXCEPT !.pc = "increment"]]
            /\ UNCHANGED last
       ELSE /\ last' = Response("get_proposal_by_id", user_id, "ok")
            /\ UNCHANGED task
    /\ UNCHANGED <<doc, commits, store, batch, auth>>

\* {$set: {view_count: 1}} where {$inc: ...} was meant.
inc_update_as_set(p) == [p EXCEPT !.view_count = 1]

\* {$inc: {view_count: 1}}
inc_update(p) == [p EXCEPT !.view_count = @ + 1]

\* increment_view_count: one update_one
increment_view_count(t) ==
    /\ task[t].pc = "increment"
    /\ Write(t, inc_update(doc), Idle)
    /\ last' = Response("get_proposal_by_id", task[t].caller, "ok")

\* ------------------------------ search_service._calculate_pagination
MaxPageSize == 100

\* math.ceil(a / b) for b > 0
ceil(a, b) == IF a % b = 0 THEN a \div b ELSE (a \div b) + 1

\* Pagination that rounds the number of pages down.
calculate_pagination_floor(page_arg, page_size_arg, total_count) ==
    LET page == IF page_arg > 1 THEN page_arg ELSE 1
        page_size == IF page_size_arg < 1 THEN 1
                     ELSE IF page_size_arg > MaxPageSize THEN MaxPageSize
                     ELSE page_size_arg
        total_pages == IF total_count > 0 THEN total_count \div page_size ELSE 1
    IN [current_page |-> page,
        page_size |-> page_size,
        total_pages |-> total_pages,
        total_count |-> total_count,
        offset |-> (page - 1) * page_size,
        has_next |-> page < total_pages,
        has_previous |-> page > 1]

calculate_pagination(page_arg, page_size_arg, total_count) ==
    LET page == IF page_arg > 1 THEN page_arg ELSE 1
        page_size == IF page_size_arg < 1 THEN 1
                     ELSE IF page_size_arg > MaxPageSize THEN MaxPageSize
                     ELSE page_size_arg
        total_pages == IF total_count > 0 THEN ceil(total_count, page_size) ELSE 1
    IN [current_page |-> page,
        page_size |-> page_size,
        total_pages |-> total_pages,
        total_count |-> total_count,
        offset |-> (page - 1) * page_size,
        has_next |-> page < total_pages,
        has_previous |-> page > 1]

\* Arguments of a call: pages below and above the first, page sizes
\* around both ends of the allowed range, counts from none to several
\* pages of the largest size.
PageArgs == 0..3

PageSizeArgs == {0, 1, 2, 3, MaxPageSize, MaxPageSize + 1}

TotalCounts == {0, 1, 2, 3, 4, 5, 99, 100, 101, 250}

\* A search reaching its page_info = self._calculate_pagination(...)
paginate(page, page_size, total_count) ==
    /\ last' = [Response("calculate_pagination", NoUser, "ok") EXCEPT
                   !.items = {[page |-> page, page_size |-> page_size,
                               total_count |-> total_count,
                               page_info |-> calculate_pagination(
                                                 page, page_size, total_count)]}]
    /\ UNCHANGED <<doc, task, commits, store, batch, auth>>

\* ------------------------------------------------------ specification
\* The handlers that write, called by users drawn from U.
Handler(t, U) ==
    \/ \E u \in U : submit_proposal(t, u)
    \/ \E u \in U : withdraw_proposal(t, u)
    \/ \E u \in U : publish_proposal(t, u)
    \/ \E u \in U : archive_proposal(t, u)
    \/ transition_status(t)
    \/ \E u \in U, a \in BOOLEAN : approve_proposal(t, u, a)
    \/ approve_proposal_auto_publish(t)
    \/ \E u \in U, r \in ReasonVals : reject_proposal(t, u, r)
    \/ \E u \in U, te \in {"none", "v2"}, f \in FullVals :
           update_proposal(t, u, te, f)
    \/ update_proposal_write(t)
    \/ \E u \in U : delete_proposal(t, u)
    \/ delete_proposal_write(t)
    \/ \E u \in U : add_proposal_file(t, u)
    \/ add_proposal_file_write(t)
    \/ \E u \in U, f \in 1..MaxFiles : remove_proposal_file(t, u, f)
    \/ remove_proposal_file_write(t)
    \/ \E u \in U, f \in FullVals \ {"none"} : legacy_submit_proposal(t, u, f)
    \/ legacy_submit_proposal_write(t)
    \/ \E b \in {"buyer1", "seller1"}, u \in U : send_proposal_to_buyer(t, b, u)
    \/ send_proposal_to_buyer_write(t)

\* One request at a time, by any user.
Next ==
    \/ Handler("t1", UserIds)
    \/ \E u \in UserIds, s \in ProposalStatus : can_transition_to("t1", u, s)

Spec == Init /\ [][Next]_vars

\* Two coroutines serving requests of the creator and of the admin.
RaceUsers == {"seller1", "admin1"}

NextRace == \E t \in Tasks : Handler(t, RaceUsers)

SpecRace == InitRace /\ [][NextRace]_vars

\* One request at a time, by the creator, an admin, a buyer or a caller
\* who is not logged in: the lifecycle, and the reads of the proposal.
Callers == {"seller1", "admin1", "buyer1", NoUser}

NextView ==
    \/ Handler("t1", RaceUsers)
    \/ \E u \in Callers, sp \in SearchParams : search_proposals("t1", u, sp)
    \/ \E u \in Callers, m \in BOOLEAN : full_text_search("t1", u, m)
    \/ \E u \in Callers, i \in {{"technology"}, {"retail"}},
          af \in AdditionalFilters : filter_by_industry("t1", u, i, af)
    \/ \E u \in Callers, id \in ProposalIds : get_proposal("t1", u, id)
    \/ \E u \in UserIds \cup {NoUser} : view_permission("t1", u)
    \/ \E u \in Callers, id \in ProposalIds : get_workflow_history("t1", u, id)

SpecView == InitView /\ [][NextView]_vars

\* Two coroutines on a draft or on an approved proposal: views, sends to
\* a buyer, content updates and archiving, in any interleaving.
Approved ==
    {transition_update(legacy_submit_update(p, "d100"), "under_review", "approved") :
        p \in NewProposals({"seller1"})}

InitCount == StartingFrom(Tasks, NewProposals({"seller1"}) \cup Approved)

NextCount ==
    \E t \in Tasks :
        \/ \E u \in {"buyer1", "seller1", NoUser} : view_proposal(t, u)
        \/ increment_view_count(t)
        \/ \E u \in RaceUsers : send_proposal_to_buyer(t, "buyer1", u)
        \/ send_proposal_to_buyer_write(t)
        \/ \E u \in RaceUsers, te \in {"none", "v2"}, f \in FullVals :
               update_proposal(t, u, te, f)
        \/ update_proposal_write(t)
        \/ \E u \in RaceUsers : archive_proposal(t, u)
        \/ transition_status(t)

SpecCount == InitCount /\ [][NextCount]_vars

\* One request at a time, with notification hooks that may raise.
NextNotify ==
    \/ Handler("t1", RaceUsers)
    \/ transition_status_then("t1", "raises")

SpecNotify == Init /\ [][NextNotify]_vars

\* The page information of a search, for every request and count.
NextPage ==
    \E page \in PageArgs, page_size \in PageSizeArgs, total_count \in TotalCounts :
        paginate(page, page_size, total_count)

SpecPage == Init /\ [][NextPage]_vars

\* The admin's review queue: submissions, batch decisions, the listing.
NextQueue ==
    \/ \E id \in StoreIds, u \in QueueUsers : queue_submit(id, u)
    \/ \E u \in QueueUsers, ids \in BatchRequests : batch_approve(u, ids)
    \/ \E u \in QueueUsers, ids \in BatchRequests, r \in ReasonVals :
          batch_reject(u, ids, r)
    \/ batch_item
    \/ batch_return
    \/ \E page \in 1..2, page_size \in 1..2 :
          get_pending_reviews("admin1", page, page_size)

SpecQueue == Init /\ [][NextQueue]_vars

\* ------------------------------------------------- auth_service.py
\* A string that is no token signed with JWT_REFRESH_SECRET (an access
\* token is one: it is signed with JWT_SECRET).
Forged == [user_id |-> "u1", exp |-> 0, jti |-> 0, signed |-> FALSE]

\* jwt.decode: JWTError for a bad signature and for exp < now.
jwt_decode(token) ==
    IF token.signed /\ token.exp >= auth.now THEN "ok" ELSE "JWTError"

\* _generate_tokens: the refresh token; jti tells two tokens apart.
generate_tokens(user, extend_expiry) ==
    [user_id |-> user.id,
     exp |-> auth.now + (IF extend_expiry THEN refresh_token_expire_days * 2
                         ELSE refresh_token_expire_days),
     jti |-> Cardinality(auth.issued) + 1,
     signed |-> TRUE]

\* find_one on the users collection: the documents that match.
find_users(k, v) == {u \in auth.users : u[k] = v}

\* A users collection without the unique index on email.
DuplicateKeyError_without_index(email) == FALSE

\* insert_one under create_index("email", unique=True).
DuplicateKeyError(email) == find_users("email", email) # {}

\* user_service.create_user up to its insert_one: find_one({"email": email}).
create_user(t, email, password) ==
    /\ auth.pending[t] = NoPending
    /\ task[t].pc = "idle"
    /\ IF find_users("email", email) # {}
       THEN /\ last' = Response("create_user", email, "USER_EMAIL_EXISTS")
            /\ UNCHANGED auth
       ELSE /\ Cardinality(auth.users) + Cardinality({s \in Tasks :
                  auth.pending[s] # NoPending}) < Len(UserDocIds)
            /\ auth' = [auth EXCEPT !.pending[t] =
                           [email |-> email, password |-> password]]
            /\ UNCHANGED last
    /\ UNCHANGED <<doc, task, commits, store, batch>>

\* user_service.create_user from insert_one on.
insert_one(t) ==
    LET user == [id |-> UserDocIds[Cardinality(auth.users) + 1],
                 email |-> auth.pending[t].email,
                 password |-> auth.pending[t].password,
                 is_active |-> TRUE]
    IN /\ auth.pending[t] # NoPending
       /\ IF DuplicateKeyError(user.email)
          THEN /\ last' = Response("create_user", user.email, "USER_EMAIL_EXISTS")
               /\ auth' = [auth EXCEPT !.pending[t] = NoPending]
          ELSE /\ last' = Response("create_user", user.email, "ok")
               /\ auth' = [auth EXCEPT !.pending[t] = NoPending,
                                       !.users = @ \cup {user}]
       /\ UNCHANGED <<doc, task, commits, store, batch>>

authenticate_user_checks(email, password) ==
    LET found == find_users("email", email)
    IN IF found = {} THEN "INVALID_CREDENTIALS"
       ELSE IF \E u \in found : ~u.is_active THEN "ACCOUNT_DISABLED"
       ELSE IF \E u \in found : u.password # password THEN "INVALID_CREDENTIALS"
       ELSE "ok"

authenticate_user(email, password, remember_me) ==
    LET r == authenticate_user_checks(email, password)
    IN /\ IF r = "ok"
          THEN /\ Cardinality(auth.issued) < MaxTokens
               /\ \E u \in find_users("email", email) :
                     LET token == generate_tokens(u, remember_me)
                     IN /\ auth' = [auth EXCEPT !.issued = @ \cup {token}]
                        /\ last' = [Response("authenticate_user", email, r)
                                       EXCEPT !.items = {token}]
          ELSE /\ last' = Response("authenticate_user", email, r)
               /\ UNCHANGED auth
       /\ UNCHANGED <<doc, task, commits, store, batch>>

\* A refresh that never looks at is_active.
refresh_access_token_checks_for_any_user(refresh_token) ==
    IF refresh_token \in auth.blacklist THEN "INVALID_REFRESH_TOKEN"
    ELSE IF jwt_decode(refresh_token) # "ok" THEN "INVALID_REFRESH_TOKEN"
    ELSE IF find_users("id", refresh_token.user_id) = {} THEN "USER_NOT_FOUND"
    ELSE "ok"

refresh_access_token_checks(refresh_token) ==
    IF refresh_token \in auth.blacklist THEN "INVALID_REFRESH_TOKEN"
    ELSE IF jwt_decode(refresh_token) # "ok" THEN "INVALID_REFRESH_TOKEN"
    ELSE IF find_users("id", refresh_token.user_id) = {} THEN "USER_NOT_FOUND"
    ELSE IF \E u \in find_users("id", refresh_token.user_id) : ~u.is_active
         THEN "ACCOUNT_DISABLED"
    ELSE "ok"

refresh_access_token(refresh_token) ==
    /\ last' = [Response("refresh_access_token", refresh_token.user_id,
                         refresh_access_token_checks(refresh_token))
                   EXCEPT !.items = {refresh_token}]
    /\ UNCHANGED <<doc, task, commits, store, batch, auth>>

\* Returns True whether the token decodes or not; only one that decodes
\* enters the blacklist.
logout_user(refresh_token) ==
    /\ auth' = [auth EXCEPT !.blacklist =
                   IF jwt_decode(refresh_token) = "ok"
                   THEN @ \cup {refresh_token} ELSE @]
    /\ last' = [Response("logout_user", refresh_token.user_id, "ok")
                   EXCEPT !.items = {refresh_token}]
    /\ UNCHANGED <<doc, task, commits, store, batch>>

\* A cleanup that empties the blacklist.
blacklist_after_clear == {}

\* cleanup_expired_tokens: what stays in the blacklist.
blacklist_after_cleanup == {token \in auth.blacklist : jwt_decode(token) = "ok"}

cleanup_expired_tokens ==
    /\ auth' = [auth EXCEPT !.blacklist = blacklist_after_cleanup]
    /\ UNCHANGED <<doc, task, last, commits, store, batch>>

\* user_service.activate_user / deactivate_user: {"$set": {"is_active": v}}
set_is_active(op, user_id, v) ==
    /\ auth' = [auth EXCEPT !.users =
                   {[u EXCEPT !.is_active = IF u.id = user_id THEN v ELSE @] :
                       u \in @}]
    /\ last' = Response(op, user_id,
                        IF \E u \in auth.users : u.id = user_id /\ u.is_active # v
                        THEN "ok" ELSE "not_modified")
    /\ UNCHANGED <<doc, task, commits, store, batch>>

activate_user(user_id) == set_is_active("activate_user", user_id, TRUE)

deactivate_user(user_id) == set_is_active("deactivate_user", user_id, FALSE)

\* A refresh token's lifetime passes.
tick ==
    /\ auth.now < MaxTicks * refresh_token_expire_days
    /\ auth' = [auth EXCEPT !.now = @ + refresh_token_expire_days]
    /\ UNCHANGED <<doc, task, last, commits, store, batch>>

\* Tokens a client can present.
RefreshTokens == auth.issued \cup {Forged}

\* Registration, login, refresh, logout and the cleanup, with two
\* registrations possibly in flight together.
NextAuth ==
    \/ \E t \in Tasks, email \in Emails : create_user(t, email, "pw1")
    \/ \E t \in Tasks : insert_one(t)
    \/ \E email \in Emails, password \in Passwords, remember_me \in BOOLEAN :
          authenticate_user(email, password, remember_me)
    \/ \E token \in RefreshTokens : refresh_access_token(token)
    \/ \E token \in RefreshTokens : logout_user(token)
    \/ cleanup_expired_tokens
    \/ \E id \in {"u1", "u2"} : activate_user(id)
    \/ \E id \in {"u1", "u2"} : deactivate_user(id)
    \/ tick

SpecAuth == InitRace /\ [][NextAuth]_vars

\* ------------------------------------------------------------ properties
\* The handler running as task t takes this step.
Steps(t) == task'[t] # task[t]

\* Task t is at the update_one of a handler of the set ops.
AtWrite(t, ops) == task[t].pc = "write" /\ task[t].op \in ops

LastRecord == doc.review_records[Len(doc.review_records)]

\* C1: the history matches the status.  The current status is the to_status
\* of the most recent review record, or draft when there is no record, and
\* review records and status changes come in pairs: a step changes the
\* status exactly when it appends one record, and never touches the history
\* otherwise.  Fails: delete_proposal archives without a record.
\* C1: state part
StatusIsLastRecord ==
    doc.status = IF doc.review_records = <<>> THEN "draft" ELSE LastRecord.status_to

\* C1: step part
RecordPerStatusChange ==
    IF doc'.status # doc.status
    THEN doc'.review_records =
             Append(doc.review_records,
                    [status_from |-> doc.status, status_to |-> doc'.status,
                     created_at |-> utcnow(doc)])
    ELSE doc'.review_records = doc.review_records

\* C1: the history invariant, over every operation that changes status
C1_HistoryMatchesStatus == [](StatusIsLastRecord) /\ [][RecordPerStatusChange]_vars

\* C2: of two approve_proposal calls that both read the proposal under
\* review before either wrote, only one is applied: once the first has
\* approved, the write step of the second leaves the document as it is (no
\* second record) and does not return success.
C2_OneApproveWins ==
    [][\A t \in Tasks :
          ( /\ AtWrite(t, {"approve_proposal"})
            /\ task[t].status_from = "under_review"
            /\ task[t].status_to = "approved"
            /\ doc.status = "approved"
            /\ Steps(t) )
          => /\ doc' = doc
             /\ task'[t].pc = "idle"
             /\ last'.result # "ok"]_vars

\* C3: a write that rests on a stale read never applies.  When another
\* update was committed between a handler's read and its own update_one,
\* the handler's step leaves the document unchanged and returns a failure;
\* for update_proposal and the file operations as for the transitions.
C3_StaleWriteNeverApplies ==
    [][\A t \in Tasks :
          (task[t].pc = "write" /\ task[t].stale /\ Steps(t))
          => /\ doc' = doc
             /\ last'.result # "ok"]_vars

\* C4: version counts the successful mutations.  A step that commits an
\* update (content, file or status) raises version by exactly 1, and any
\* other step leaves version alone.
C4_VersionCountsMutations ==
    [][doc'.version = IF commits' # commits THEN doc.version + 1
                      ELSE doc.version]_vars

\* C5: every change of status, by whatever operation, goes to a successor of
\* the current status in the adjacency table, i.e. is a change that
\* validate_status_transition accepts.  Fails: archive_proposal archives a
\* proposal under review, send_proposal_to_buyer sends an approved one.
C5_StatusChangesFollowTable ==
    [][doc'.status # doc.status
       => validate_status_transition(doc.status, doc'.status) = "ok"]_vars

\* The adjacency table as the specification lists it: <<current, target>>.
AdjacencyTable ==
    {<<"draft", "under_review">>, <<"draft", "archived">>,
     <<"under_review", "approved">>, <<"under_review", "rejected">>,
     <<"under_review", "draft">>,
     <<"approved", "available">>, <<"approved", "archived">>,
     <<"available", "sent">>, <<"available", "archived">>,
     <<"sent", "archived">>,
     <<"rejected", "draft">>, <<"rejected", "archived">>}

\* C6: validate_status_transition accepts <<current, target>> exactly when
\* the pair is in the adjacency table and rejects every other pair, the
\* pairs leaving archived and the self-loops among them, with
\* INVALID_STATUS_TRANSITION; the verdict that can_transition_to hands back
\* for the stored proposal is the same.
C6_ValidateMatchesTable ==
    /\ \A c \in ProposalStatus, g \in ProposalStatus :
          validate_status_transition(c, g) =
              IF <<c, g>> \in AdjacencyTable THEN "ok"
              ELSE "INVALID_STATUS_TRANSITION"
    /\ \A c \in ProposalStatus :
          /\ validate_status_transition(c, c) # "ok"
          /\ validate_status_transition("archived", c) # "ok"
    /\ last.op = "can_transition_to"
       => (last.result = "can_transition"
              <=> <<last.current, last.target>> \in AdjacencyTable)

\* C6 witness: a query on an archived proposal was answered with a rejection.
C6_Witness ==
    /\ last.op = "can_transition_to"
    /\ last.current = "archived"
    /\ last.target = "draft"
    /\ last.result = "INVALID_STATUS_TRANSITION"

\* C7: while check_data_completeness reports ready_for_submission false, a
\* submit_proposal call fails: it returns an error, starts no write, and
\* leaves the document (status and review records) as it was; and no step
\* of submit_proposal ever moves the proposal to under_review.
C7_SubmitGate ==
    [][\A t \in Tasks :
          /\ \A u \in UserIds :
                ( /\ ~check_data_completeness(doc).ready_for_submission
                  /\ submit_proposal(t, u) )
                => /\ last'.op = "submit_proposal"
                   /\ last'.result # "ok"
                   /\ UNCHANGED <<doc, task>>
          /\ (AtWrite(t, {"submit_proposal"}) /\ Steps(t))
             => doc'.status # "under_review"]_vars

\* C7 witness: the creator's submit of a draft that can_submit accepts was
\* refused by the completeness gate, the proposal still a draft without
\* records.
C7_Witness ==
    /\ last.op = "submit_proposal"
    /\ last.caller = "seller1"
    /\ last.result = "PROPOSAL_DATA_INCOMPLETE"
    /\ doc.status = "draft"
    /\ doc.review_records = <<>>

\* C8: submit_proposal by the creator does not fail on a draft in which
\* every required field is present, full_content with a detailed
\* description of at least 200 characters included.  Fails: the
\* completeness report is never set to ready.
C8_CompleteDraftSubmits ==
    ~ ( /\ last.op = "submit_proposal"
        /\ last.caller = "seller1"
        /\ last.result # "ok"
        /\ doc.status = "draft"
        /\ doc.full_content = "d200" )

\* C9: after a submit and a reject, submit_proposal by the creator does not
\* fail on the rejected proposal.  Fails: can_submit accepts drafts only.
C9_RejectedResubmits ==
    ~ ( /\ last.op = "submit_proposal"
        /\ last.caller = "seller1"
        /\ last.result # "ok"
        /\ doc.status = "rejected"
        /\ doc.full_content # "none"
        /\ LastRecord.status_to = "rejected" )

\* C10: a proposal without full_content is never under review, approved,
\* available or sent.
C10_NoReviewWithoutFullContent ==
    doc.full_content = "none"
    => doc.status \notin {"under_review", "approved", "available", "sent"}

\* C10 witness: an update_proposal that read the draft was applied after
\* the proposal had gone under review, and full_content is still there.
C10_Witness ==
    /\ last.op = "update_proposal"
    /\ last.result = "ok"
    /\ doc.status = "under_review"
    /\ doc.full_content # "none"

ActiveAdmin(u) == UserRole(u) = "admin" /\ is_active(u)

\* C12: approve_proposal and reject_proposal change a proposal only for an
\* active admin and only while it is under review, approve to approved and
\* reject to rejected.  A call by anyone else, or on a proposal in another
\* status, returns an error and starts no write; and when the write of an
\* accepted call is applied the proposal is still under review.
\* C12, state part: only an accepted call gets as far as its write.
ReviewAccepted ==
    \A t \in Tasks :
        ( /\ AtWrite(t, {"approve_proposal", "reject_proposal"})
          /\ task[t].status_to \in {"approved", "rejected"} )
        => /\ ActiveAdmin(task[t].caller)
           /\ task[t].status_from = "under_review"
           /\ doc.status = "under_review"
           /\ task[t].status_to = IF task[t].op = "approve_proposal"
                                  THEN "approved" ELSE "rejected"

\* C12, step part: a refused call changes nothing, an accepted one sets
\* its target status and records it.
ReviewStep ==
    /\ ( /\ last' # last
         /\ last'.op \in {"approve_proposal", "reject_proposal"}
         /\ last'.result # "ok" )
       => UNCHANGED <<doc, task>>
    /\ \A t \in Tasks :
          ( /\ AtWrite(t, {"approve_proposal", "reject_proposal"})
            /\ task[t].status_to \in {"approved", "rejected"}
            /\ Steps(t) )
          => doc' = transition_update(doc, "under_review", task[t].status_to)

C13_PublishByCreatorOrAdmin ==
    [][\A t \in Tasks, u \in UserIds :
          publish_proposal(t, u)
          => IF doc.status = "approved" /\ (u = doc.creator_id \/ ActiveAdmin(u))
             THEN /\ task'[t].pc = "write"
                  /\ task'[t].status_to = "available"
             ELSE /\ last'.result # "ok"
                  /\ UNCHANGED <<doc, task>>]_vars

\* C14: withdraw_proposal is accepted only when the proposal is under
\* review and the caller is its creator or an admin, and it then sets the
\* status to draft; in every other case it returns an error and changes
\* nothing.
\* C14, state part: only an accepted call gets as far as its write.
WithdrawAccepted ==
    \A t \in Tasks :
        AtWrite(t, {"withdraw_proposal"})
        => /\ task[t].caller = doc.creator_id \/ UserRole(task[t].caller) = "admin"
           /\ task[t].status_from = "under_review"
           /\ doc.status = "under_review"
           /\ task[t].status_to = "draft"

\* C14, step part
WithdrawStep ==
    /\ ( /\ last' # last
         /\ last'.op = "withdraw_proposal"
         /\ last'.result # "ok" )
       => UNCHANGED <<doc, task>>
    /\ \A t \in Tasks :
          (AtWrite(t, {"withdraw_proposal"}) /\ Steps(t))
          => doc' = transition_update(doc, "under_review", "draft")

ArchiveAccepted ==
    \A t \in Tasks :
        AtWrite(t, {"archive_proposal"})
        => /\ task[t].caller = doc.creator_id \/ ActiveAdmin(task[t].caller)
           /\ task[t].status_from = doc.status
           /\ doc.status # "archived"
           /\ task[t].status_to = "archived"

\* C15, step part: the creator and the admin are refused for one reason
\* only, and a refusal changes nothing.
ArchiveStep ==
    /\ ( /\ last' # last
         /\ last'.op = "archive_proposal"
         /\ last'.result # "ok" )
       => /\ UNCHANGED <<doc, task>>
          /\ (last'.caller = doc.creator_id \/ ActiveAdmin(last'.caller))
             => /\ doc.status = "archived"
                /\ last'.result = "PROPOSAL_ALREADY_ARCHIVED"
    /\ \A t \in Tasks :
          (AtWrite(t, {"archive_proposal"}) /\ Steps(t))
          => /\ doc' = transition_update(doc, doc.status, "archived")
             /\ last'.result = "ok"

C16_ShortReasonRefused ==
    [][\A t \in Tasks, u \in UserIds, r \in ReasonVals :
          (r.len < MinRejectReason /\ reject_proposal(t, u, r))
          => /\ last'.op = "reject_proposal"
             /\ last'.result # "ok"
             /\ (ActiveAdmin(u) /\ doc.status = "under_review")
                => last'.result = "REJECT_REASON_TOO_SHORT"
             /\ UNCHANGED <<doc, task>>]_vars

\* C16 witness: the admin's reject of a proposal under review was refused
\* for its reason; the proposal is still under review, nothing recorded.
C16_Witness ==
    /\ last.op = "reject_proposal"
    /\ last.caller = "admin1"
    /\ last.result = "REJECT_REASON_TOO_SHORT"
    /\ doc.status = "under_review"
    /\ doc.review_records = <<>>

\* C17: whatever the filters, sort key and page, a search answers a caller
\* who is not logged in with available proposals only, and a logged-in
\* caller with available or sent proposals only.
SearchOps == {"search_proposals", "full_text_search", "filter_by_industry"}

Baseline(user_id) ==
    IF user_id = NoUser THEN {"available"} ELSE {"available", "sent"}

C17_SearchKeepsBaseline ==
    last.op \in SearchOps =>
        \A item \in last.items : item.status \in Baseline(last.caller)

\* C18: a search result rendered for a caller who is neither the creator
\* nor an admin holds no full content and no exact financial value; of the
\* financial data it holds at most the label of a revenue range.
RenderedOps == {"search_proposals", "full_text_search"}

RangeLabels == {"under_1m", "1m_to_10m", "10m_to_100m", "over_100m"}

IsStranger(u) == u # doc.creator_id /\ UserRole(u) # "admin"

C19_HiddenReadsAsMissing ==
    (/\ last.op = "get_proposal"
     /\ IsStranger(last.caller)
     /\ doc.status \notin {"available", "sent"}) =>
        /\ last.result = "HTTP_500"
        /\ last.items = {}

\* C20: on every proposal, in every status, a capability the creator has
\* an admin has too, and a capability a caller who is not logged in has a
\* logged-in caller who is not the creator has too.
Capabilities == {"can_view_teaser", "can_view_full", "can_edit", "can_delete"}

Admins == {u \in UserIds : UserRole(u) = "admin"}

NonOwners == {u \in KnownUsers : u # doc.creator_id}

C20_CapabilitiesAreOrdered ==
    \A c \in Capabilities :
        /\ check_view_permission(doc, doc.creator_id)[c] =>
               \A a \in Admins : check_view_permission(doc, a)[c]
        /\ check_view_permission(doc, NoUser)[c] =>
               \A u \in NonOwners : check_view_permission(doc, u)[c]

C20_Witness ==
    /\ last.op = "check_view_permission"
    /\ last.caller = doc.creator_id
    /\ doc.status = "rejected"
    /\ last.items = {[can_view_teaser |-> TRUE, can_view_full |-> TRUE,
                      can_edit |-> TRUE, can_delete |-> TRUE]}

\* C21: the creator of a proposal can edit and delete it exactly while it
\* is a draft or rejected, and can view its teaser and its full content in
\* every status.
CreatorCapabilities ==
    LET perm == check_view_permission(doc, doc.creator_id)
    IN /\ perm.can_edit <=> doc.status \in {"draft", "rejected"}
       /\ perm.can_delete <=> doc.status \in {"draft", "rejected"}
       /\ perm.can_view_teaser
       /\ perm.can_view_full

C21_CreatorCapabilities == CreatorCapabilities

\* C21, amended: the same, for a creator who is not an admin.
C21_SellerCreatorCapabilities ==
    UserRole(doc.creator_id) # "admin" => CreatorCapabilities

C21_Witness ==
    /\ last.op = "check_view_permission"
    /\ last.caller = doc.creator_id
    /\ UserRole(last.caller) = "seller"
    /\ doc.status = "under_review"
    /\ last.items = {[can_view_teaser |-> TRUE, can_view_full |-> TRUE,
                      can_edit |-> FALSE, can_delete |-> FALSE]}

\* C22: a caller who is neither the creator nor an admin can view the
\* teaser exactly when the proposal is available or sent, and can neither
\* view the full content, edit nor delete in any status; a caller id that
\* no user has resolves to the all-false capabilities.
C22_StrangerCapabilities ==
    \A u \in UserIds \cup {NoUser} :
        IsStranger(u) =>
            LET perm == check_view_permission(doc, u)
            IN IF u \in KnownUsers
               THEN /\ perm.can_view_teaser <=> doc.status \in {"available", "sent"}
                    /\ ~perm.can_view_full
                    /\ ~perm.can_edit
                    /\ ~perm.can_delete
               ELSE perm = NoPermission

C22_Witness ==
    /\ last.op = "check_view_permission"
    /\ last.caller = "buyer1"
    /\ doc.status = "sent"
    /\ last.items = {[can_view_teaser |-> TRUE, can_view_full |-> FALSE,
                      can_edit |-> FALSE, can_delete |-> FALSE]}

\* C23: can_transition_to reports a transition as allowed only if the
\* target is in the table for the current status and the caller holds the
\* capability the transition needs; every transition needs at least that
\* the caller is the creator or an active admin.
C23_DryRunChecksTableAndCaller ==
    (last.op = "can_transition_to" /\ last.result = "can_transition") =>
        /\ last.target \in valid_transitions[last.current]
        /\ \/ last.caller = doc.creator_id
           \/ ActiveAdmin(last.caller)

\* C24: batch_approve goes through every id of the request even when some
\* fail: a failure never keeps a later id from being approved, an earlier
\* success is not undone, and each requested id is reported in exactly one
\* of the success list and the failure list.
Range(seq) == {seq[i] : i \in DOMAIN seq}

Count(seq, x) == Cardinality({i \in DOMAIN seq : seq[i] = x})

Approving == batch.pc = "loop" /\ batch.op = "batch_approve"

SuccessesStand ==
    Approving =>
        /\ \A id \in Range(batch.successful) : store[id].status = "approved"
        /\ Len(batch.successful) + Len(batch.failed) + Len(batch.ids)
               = Len(batch.proposal_ids)

LaterIdsStillApproved ==
    (/\ Approving
     /\ batch.ids # <<>>
     /\ batch' # batch
     /\ Head(batch.ids) \in StoreIds
     /\ store[Head(batch.ids)].status = "under_review") =>
        /\ store'[Head(batch.ids)].status = "approved"
        /\ batch'.successful = Append(batch.successful, Head(batch.ids))

BatchApproveReturned == last.op = "batch_approve" /\ last.result = "ok"

EachIdInOneList ==
    BatchApproveReturned =>
        \A r \in last.items :
            /\ r.total = Len(r.proposal_ids)
            /\ \A id \in Range(r.proposal_ids) :
                   (id \in Range(r.successful)) # (id \in Range(r.failed))

C24_BatchApproveBestEffort ==
    [](SuccessesStand /\ EachIdInOneList) /\ [][LaterIdsStillApproved]_vars

\* C24, amended: the same, with each entry of the request reported once: an
\* id the request names n times is reported n times over the two lists.
EachEntryInOneList ==
    BatchApproveReturned =>
        \A r \in last.items :
            /\ r.total = Len(r.proposal_ids)
            /\ \A id \in BatchIds :
                   Count(r.successful, id) + Count(r.failed, id)
                       = Count(r.proposal_ids, id)

C24_BatchApproveBestEffortPerEntry ==
    [](SuccessesStand /\ EachEntryInOneList) /\ [][LaterIdsStillApproved]_vars

C24_Witness ==
    /\ BatchApproveReturned
    /\ store["pa"].status = "approved"
    /\ \E r \in last.items :
           /\ r.proposal_ids = <<"p404", "pa">>
           /\ r.failed = <<"p404">>
           /\ r.successful = <<"pa">>

\* C25: batch_reject tests the reason once, before any item: with a reason
\* of fewer than 10 characters the call fails as a whole and no proposal
\* of the batch is modified.
RejectLoopHasReason ==
    (batch.pc = "loop" /\ batch.op = "batch_reject") =>
        /\ batch.reason.len >= MinRejectReason
        /\ batch.reason.stripped >= MinRejectReason

RejectedOnlyInLoop ==
    /\ (last' # last /\ last'.op = "batch_reject" /\ last'.result # "ok") =>
           /\ last'.result = "BATCH_REJECT_ERROR"
           /\ UNCHANGED <<store, batch>>
    /\ \A id \in StoreIds :
           (store'[id].status = "rejected" /\ store[id].status # "rejected") =>
               /\ batch.pc = "loop"
               /\ batch.op = "batch_reject"
               /\ id = Head(batch.ids)

C26_PendingReviewsAreFifo ==
    last.op = "get_pending_reviews" =>
        \A r \in last.items :
            (r.current_page = 1 /\ r.page_size = Cardinality(StoreIds)) =>
                /\ Range(r.proposals)
                       = {id \in StoreIds : store[id].status = "under_review"}
                /\ \A i, j \in DOMAIN r.proposals :
                       i < j => store[r.proposals[i]].entered_at
                                    <= store[r.proposals[j]].entered_at

\* C27: no counter increment is lost.  In every interleaving of views,
\* sends, content updates and transitions, a step that completes an
\* increment raises its counter by exactly 1 and every other step leaves
\* the counters as they are; so k completed increments raise a counter by
\* k, and no counter decreases.
CompletesView(t) == task[t].pc = "increment" /\ task'[t].pc = "idle"

CompletesSend(t) ==
    /\ AtWrite(t, {"send_proposal_to_buyer"})
    /\ task'[t].pc = "idle"

C27_IncrementsAreNeverLost ==
    [][/\ doc'.view_count =
              IF \E t \in Tasks : CompletesView(t) THEN doc.view_count + 1
              ELSE doc.view_count
       /\ doc'.sent_count =
              IF \E t \in Tasks : CompletesSend(t) THEN doc.sent_count + 1
              ELSE doc.sent_count]_vars

C27_Witness ==
    /\ doc.view_count = 1
    /\ doc.sent_count = 1
    /\ task["t2"].pc = "increment"
    /\ task["t2"].stale

\* C28: a notification hook that fails after a transition has been
\* persisted neither rolls the transition back nor makes the operation
\* report failure: the step that completes a transition handler leaves the
\* new status in the document and answers its caller ok.
C28_HookFailureIsSwallowed ==
    [][\A t \in Tasks :
          (AtWrite(t, TransitionOps) /\ task'[t].pc = "idle") =>
              /\ doc'.status = task[t].status_to
              /\ last' = Response(task[t].op, task[t].caller, "ok")]_vars

\* C29: for every page, page_size and total count the effective page size
\* is clamped into 1..100, total_pages is ceil(total / page size), also for
\* a total of 0, has_next holds exactly when the page is below total_pages
\* and has_previous exactly when the page is above 1.
LeastCover(total, size) ==
    CHOOSE n \in 0..total : n * size >= total /\ \A m \in 0..total : m * size >= total => n <= m

PageInfoIs(pages(_, _)) ==
    last.op = "calculate_pagination" =>
        \A r \in last.items :
            LET info == r.page_info
            IN /\ info.page_size \in 1..MaxPageSize
               /\ r.page_size \in 1..MaxPageSize => info.page_size = r.page_size
               /\ r.page_size < 1 => info.page_size = 1
               /\ r.page_size > MaxPageSize => info.page_size = MaxPageSize
               /\ info.total_pages = pages(r.total_count, info.page_size)
               /\ info.has_next <=> info.current_page < info.total_pages
               /\ info.has_previous <=> info.current_page > 1

C29_PageInfo == PageInfoIs(LeastCover)

\* C29, amended: the same, except that a total of 0 gives total_pages 1.
AtLeastOnePage(total, size) == IF total = 0 THEN 1 ELSE LeastCover(total, size)

C29_PageInfoWithOnePageForNone == PageInfoIs(AtLeastOnePage)

C29_Witness ==
    /\ last.op = "calculate_pagination"
    /\ \E r \in last.items :
           /\ r.page = 2 /\ r.page_size = MaxPageSize + 1 /\ r.total_count = 250
           /\ r.page_info.page_size = MaxPageSize
           /\ r.page_info.total_pages = 3
           /\ r.page_info.has_next
           /\ r.page_info.has_previous

\* C30: a search whose range filter has its minimum above its maximum, be
\* it the revenue range or the range of the year of establishment, is
\* refused with a validation error before any query goes to the store.
MinAboveMax(range) == \E a \in range.min, b \in range.max : a > b

C30_InvertedRangeIsRefused ==
    [][\A u \in Callers, sp \in SearchParams :
          (/\ MinAboveMax(sp.revenue) \/ MinAboveMax(sp.established_year)
           /\ search_proposals("t1", u, sp)) =>
              last' = Response("search_proposals", u, "VALIDATION_ERROR")]_vars

LogoutBlacklists ==
    \A token \in RefreshTokens :
        (logout_user(token) /\ jwt_decode(token) = "ok") =>
            token \in auth'.blacklist

StaysWhileUnexpired ==
    \A token \in auth.blacklist :
        token.exp >= auth'.now => token \in auth'.blacklist

BlacklistedIsRefused ==
    \A token \in RefreshTokens :
        (refresh_access_token(token) /\ token \in auth.blacklist) =>
            last'.result = "INVALID_REFRESH_TOKEN"

C32_LoggedOutTokenStaysRefused ==
    [][LogoutBlacklists /\ StaysWhileUnexpired /\ BlacklistedIsRefused]_vars

C32_Witness ==
    /\ last.op = "refresh_access_token"
    /\ last.result = "INVALID_REFRESH_TOKEN"
    /\ auth.now > 0
    /\ \E token \in last.items :
           /\ token \in auth.blacklist
           /\ jwt_decode(token) = "ok"
           /\ \E u \in find_users("id", token.user_id) : u.is_active
    /\ \E token \in auth.issued : jwt_decode(token) # "ok"

\* C33: at most one user per email address.  A registration with an
\* address that is registered already fails with USER_EMAIL_EXISTS and
\* creates no user, also when two registrations of one address run
\* together.
OneUserPerEmail ==
    \A u, v \in auth.users : u.email = v.email => u = v

RegisteredEmailIsRefused ==
    \A t \in Tasks :
        /\ \A email \in Emails :
               (create_user(t, email, "pw1") /\ find_users("email", email) # {}) =>
                   /\ last' = Response("create_user", email, "USER_EMAIL_EXISTS")
                   /\ auth'.users = auth.users
        /\ (insert_one(t) /\ find_users("email", auth.pending[t].email) # {}) =>
               /\ last' = Response("create_user", auth.pending[t].email,
                                   "USER_EMAIL_EXISTS")
               /\ auth'.users = auth.users

C33_OneUserPerEmail == [](OneUserPerEmail) /\ [][RegisteredEmailIsRefused]_vars

\* A registration of a registered address has been refused while another
\* registration of that address, begun before the user existed, has its
\* insert still to come.
C33_Witness ==
    /\ last = Response("create_user", "buyer@example.com", "USER_EMAIL_EXISTS")
    /\ find_users("email", "buyer@example.com") # {}
    /\ \E t \in Tasks : auth.pending[t].email = "buyer@example.com"

\* C34: a deactivated user obtains no tokens.  While the account is
\* inactive a login fails with ACCOUNT_DISABLED, the right password or not,
\* and issues nothing; a refresh with a token issued before the
\* deactivation fails as well.
IsInactive(k, v) == \E u \in find_users(k, v) : ~u.is_active

InactiveLoginIsRefused ==
    \A email \in Emails, password \in Passwords, remember_me \in BOOLEAN :
        (authenticate_user(email, password, remember_me)
             /\ IsInactive("email", email)) =>
            /\ last' = Response("authenticate_user", email, "ACCOUNT_DISABLED")
            /\ auth'.issued = auth.issued

InactiveRefreshIsRefused ==
    \A token \in auth.issued :
        (refresh_access_token(token) /\ IsInactive("id", token.user_id)) =>
            last'.result # "ok"

C34_InactiveUserGetsNoToken ==
    [][InactiveLoginIsRefused /\ InactiveRefreshIsRefused]_vars

\* A token issued while the user was active, still good and not
\* blacklisted, has been refused for the account being disabled.
C34_Witness ==
    /\ last.op = "refresh_access_token"
    /\ last.result = "ACCOUNT_DISABLED"
    /\ \E token \in last.items :
           /\ token \in auth.issued \ auth.blacklist
           /\ jwt_decode(token) = "ok"
           /\ IsInactive("id", token.user_id)

\* C35: the history is a chain in every reachable state, whatever the
\* interleaving of concurrent transitions: the first record starts from
\* draft, and every later record starts from the status the record before
\* it ended in.
C35_HistoryIsChain ==
    \A i \in DOMAIN doc.review_records :
        doc.review_records[i].status_from =
            IF i = 1 THEN "draft" ELSE doc.review_records[i - 1].status_to

\* C36: a creator's content update, file add or file remove never takes
\* effect on a proposal whose status at the moment of the write is outside
\* draft and rejected: interleaved with a submit, the edit applies before
\* the status change or fails.
EditOps == {"update_proposal", "add_proposal_file", "remove_proposal_file"}

C36_EditsOnlyWhileEditable ==
    [][\A t \in Tasks :
          (/\ AtWrite(t, EditOps)
           /\ task[t].caller = doc.creator_id
           /\ task'[t].pc = "idle"
           /\ doc' # doc) => doc.status \in {"draft", "rejected"}]_vars

\* C37: a successful approve with auto_publish on a proposal under review
\* leaves it available, having passed through approved, with exactly two
\* review records appended: under_review to approved, then approved to
\* available.
AutoPublishing(t) == task[t].op = "approve_proposal" /\ task[t].auto_publish

\* The document d ends in a record from a to b.
EndsWith(d, a, b) ==
    /\ d.review_records # <<>>
    /\ d.review_records[Len(d.review_records)].status_from = a
    /\ d.review_records[Len(d.review_records)].status_to = b

\* The first write: from under_review to approved, one record.
ApprovesFirst ==
    \A t \in Tasks :
        (AutoPublishing(t) /\ task[t].pc = "write" /\ task'[t].pc = "auto_publish") =>
            /\ doc.status = "under_review"
            /\ doc'.status = "approved"
            /\ Len(doc'.review_records) = Len(doc.review_records) + 1
            /\ EndsWith(doc', "under_review", "approved")

\* The call returns True only from the second write, which finds what the
\* first write left and adds the record of the publication.
ThenPublishes ==
    \A t \in Tasks :
        (AutoPublishing(t) /\ task'[t].pc = "idle" /\ last'.result = "ok"
             /\ Steps(t)) =>
            /\ doc.status = "approved"
            /\ EndsWith(doc, "under_review", "approved")
            /\ doc'.status = "available"
            /\ Len(doc'.review_records) = Len(doc.review_records) + 1
            /\ EndsWith(doc', "approved", "available")
            /\ SubSeq(doc'.review_records, 1, Len(doc.review_records))
                   = doc.review_records

C37_AutoPublishAddsTwoRecords == [][ApprovesFirst /\ ThenPublishes]_vars

C37_Witness ==
    /\ last = Response("approve_proposal", "admin1", "ok")
    /\ doc.status = "available"
    /\ Len(doc.review_records) = 2
    /\ EndsWith(doc, "approved", "available")
    /\ doc.review_records[1].status_from = "under_review"

\* C38: no operation called by someone who is neither the creator of the
\* proposal nor an admin changes its status, content, attached files or
\* history: submit, withdraw, publish, archive, update, delete, file add
\* and file remove (approve, reject and dispatch too) fail for such a
\* caller and leave the proposal as it was.
MutatingOps ==
    TransitionOps \cup EditOps
        \cup {"delete_proposal", "legacy_submit_proposal", "send_proposal_to_buyer"}

\* No handler called by such a caller gets as far as its update_one.
NoStrangerPending ==
    \A t \in Tasks :
        task[t].pc \notin {"idle", "off"} => ~IsStranger(task[t].caller)

StrangerIsRefused ==
    (last' # last /\ last'.op \in MutatingOps /\ IsStranger(last'.caller)) =>
        /\ last'.result # "ok"
        /\ doc' = doc

C38_StrangersChangeNothing == [](NoStrangerPending) /\ [][StrangerIsRefused]_vars

C38_Witness ==
    /\ last.op = "archive_proposal"
    /\ last.caller = "buyer1"
    /\ last.result = "PROPOSAL_ARCHIVE_NO_PERMISSION"
    /\ doc.status = "available"

\* C39: the capabilities resolved agree with what the operations enforce.
\* For every caller and every status, update_proposal is let through to
\* its write exactly when check_view_permission reports can_edit, and
\* delete_proposal exactly when it reports can_delete.
Capability(op) == IF op = "update_proposal" THEN "can_edit" ELSE "can_delete"

\* A call that passed the checks of its handler is reported the capability.
LetThroughIsReported ==
    \A t \in Tasks :
        (/\ task[t].pc = "idle"
         /\ task'[t].pc = "write"
         /\ task'[t].op \in {"update_proposal", "delete_proposal"}) =>
            check_view_permission(doc, task'[t].caller)[Capability(task'[t].op)]

\* A call that its handler refused is not reported the capability.
RefusedIsNotReported ==
    (/\ last' # last
     /\ last'.op \in {"update_proposal", "delete_proposal"}
     /\ last'.result # "ok") =>
        ~check_view_permission(doc, last'.caller)[Capability(last'.op)]

C39_ResolverAgreesWithOperations ==
    [][LetThroughIsReported /\ RefusedIsNotReported]_vars

====
